---- MODULE Spec2Model ----
(***************************************************************************)
(* Model of components/features/matrix-background.tsx: the MatrixBackground *)
(* React component, its two effects, the frame-gated draw callback and the  *)
(* host pieces it talks to (matchMedia, requestAnimationFrame, resize).     *)
(*                                                                          *)
(* Units.  Timestamps are in thirds of a millisecond, so that both frame    *)
(* intervals 1000/60 ms and 1000/30 ms are whole numbers (50 and 100).      *)
(* Math.random() is a sample r, standing for the number r/100.  Column      *)
(* positions and speeds (drops, speeds) are in 1/200 of a glyph cell, so    *)
(* that 0.5 + random*0.5 is the whole number 100 + r.  Opacities are in     *)
(* thousandths, 0.1 + random*0.2 being 100 + 2r.                            *)
(***************************************************************************)
EXTENDS Integers, Sequences, FiniteSets, TLC

VARIABLES
    phase,                \* "initial" | "mounted" | "unmounted" | "crashed"
    matchMediaAvailable,  \* host: window.matchMedia is a function
    mqMatches,            \* host: (prefers-reduced-motion: reduce) matches
    mqListener,           \* host: handleChange is registered on the media query
    innerWidth,           \* host: window.innerWidth
    innerHeight,          \* host: window.innerHeight
    isMobile,             \* host: navigator.userAgent looks mobile
    hardwareConcurrency,  \* host: navigator.hardwareConcurrency
    ctxAvailable,         \* host: canvas.getContext("2d") gives a context
    now,                  \* host: timestamp of the latest animation frame
    rafQueue,             \* host: pending frame callbacks, [id, loop]
    resizeListeners,      \* host: loops whose handleResize is registered
    prefersReducedMotion, \* React state (committed)
    isLowPerformance,     \* React state (committed)
    pendingPRM,           \* queued setPrefersReducedMotion update: <<v>>, or <<>>
    pendingLow,           \* queued setIsLowPerformance update: <<v>>, or <<>>
    loops,                \* closures of the loop effect's runs, in order
    effectCleanup,        \* loop whose cleanup the loop effect returned, 0 if none
    reducedAtMount,       \* history: mqMatches when the component mounted
    preferenceChanged,    \* history: the preference changed after the mount
    everScheduled,        \* history: requestAnimationFrame was called
    lateDraws,            \* history: draw ran for a loop already torn down
    lastDraw              \* history: what the latest executed draw callback did

vars == <<phase, matchMediaAvailable, mqMatches, mqListener, innerWidth,
          innerHeight, isMobile, hardwareConcurrency, ctxAvailable, now, rafQueue, resizeListeners,
          prefersReducedMotion, isLowPerformance, pendingPRM, pendingLow,
          loops, effectCleanup, reducedAtMount, preferenceChanged,
          everScheduled, lateDraws, lastDraw>>

hostVars == <<isMobile, hardwareConcurrency, ctxAvailable, matchMediaAvailable>>

----------------------------------------------------------------------------
(* Bounds of the model *)

MaxTime == 200
MaxLoops == 2
\* widest viewport of the specification of the parameter selection, in px
MaxWidth == 120

\* steps by which the frame timestamp advances between two callbacks
TimeSteps == {0, 25, 100}
\* samples of Math.random(), in hundredths
Random == {0, 99}
\* viewport sizes <<innerWidth, innerHeight>> the host can have, in px
Sizes == {<<16, 16>>, <<40, 32>>}
\* viewport sizes of the specification of the parameter selection
ProbeSizes == {<<w, 100>> : w \in 0..MaxWidth}
\* devices <<mobile user agent, navigator.hardwareConcurrency>>
Devices == {<<FALSE, 8>>, <<FALSE, 2>>, <<TRUE, 8>>}

----------------------------------------------------------------------------
(* Pure pieces of the loop effect *)

isLowEndOf(mobile, cores) == mobile \/ cores <= 2

fontSizeOf(isLowEnd) == IF isLowEnd THEN 20 ELSE 16

targetFPSOf(isLowEnd) == IF isLowEnd THEN 30 ELSE 60

\* 1000 / targetFPS milliseconds, in thirds of a millisecond
frameIntervalOf(isLowEnd) == 3000 \div targetFPSOf(isLowEnd)

columnsOf(width, isLowEnd) == width \div fontSizeOf(isLowEnd)

\* Mutant of activeColumnsOf: Math.round(columns * 0.5) on low-end devices
activeColumnsRounded(width, isLowEnd) ==
    IF isLowEnd THEN (columnsOf(width, isLowEnd) + 1) \div 2
    ELSE columnsOf(width, isLowEnd)

\* Math.floor(columns * 0.5) on low-end devices
activeColumnsOf(width, isLowEnd) ==
    IF isLowEnd THEN columnsOf(width, isLowEnd) \div 2
    ELSE columnsOf(width, isLowEnd)

\* Math.random() * -100, in 1/200 cell
initialDrop(r) == 0 - (r * 200)

\* 0.5 + Math.random() * 0.5, in 1/200 cell per frame
initialSpeed(r) == 100 + r

\* 0.1 + Math.random() * 0.2, in thousandths
randomOpacity(r) == 100 + 2 * r

\* Mutant of resetDraw: the comparison can never come out true
\* (Math.random() > 1)
resetDrawNever(r) == r > 100

\* Math.random() > 0.98
resetDraw(r) == r > 98

\* Mutant of pastBottom: the comparison also holds at the bottom edge (>=)
pastBottomOrAt(drop, fontSize, height) == drop * fontSize >= 200 * height

\* drops[i] * fontSize > canvas.height
pastBottom(drop, fontSize, height) == drop * fontSize > 200 * height

\* Mutant of columnX: the columns are spread two cells apart on every device
columnXSpread(i, fontSize, isLowEnd) == i * fontSize * 2

\* line 80: x = i * fontSize * (isLowEnd ? 2 : 1), for the index i from 0
columnX(i, fontSize, isLowEnd) == i * fontSize * (IF isLowEnd THEN 2 ELSE 1)

\* Mutant of headVisible: the glyphs are drawn without the test of line 87
headVisibleAlways(drop, fontSize) == TRUE

\* y > 0 with y = drops[i] * fontSize
headVisible(drop, fontSize) == drop * fontSize > 0

----------------------------------------------------------------------------
(* The host's frame-callback queue *)

Min(S) == CHOOSE x \in S : \A y \in S : x <= y

QueueIds(q) == {e.id : e \in q}

\* Mutant of CancelAnimationFrame: the call has no effect
CancelIgnored(q, handle) == q

\* cancelAnimationFrame(handle): a handle that is not pending is ignored
CancelAnimationFrame(q, handle) == {e \in q : e.id # handle}

\* The handle requestAnimationFrame returns: one that is neither pending nor
\* still held in a closure's animationId (the host never reuses a handle;
\* handles are opaque, so the smallest unused one stands for "a new one").
NewHandle(q, lps) ==
    Min((1..(Cardinality(q) + Len(lps) + 1))
            \ (QueueIds(q) \cup {lps[k].animationId : k \in DOMAIN lps}))

\* "let animationId: number" before a handle is assigned to it (the host's
\* handles are positive).  An assignment animationId = requestAnimationFrame(draw)
\* is written as Unassigned first and filled in by StoreHandle once the host
\* has picked the handle.
Unassigned == 0

\* The closure after the call: the returned handle stored where it was assigned
StoreHandle(L, h) ==
    IF L.animationId = Unassigned THEN [L EXCEPT !.animationId = h] ELSE L

\* Every closure's pending assignment filled in with the handle h
StoreHandles(lps, h) == [k \in DOMAIN lps |-> StoreHandle(lps[k], h)]

\* Mutant of Reschedule: draw returns without requesting the next frame
RescheduleNone(q, l, h) == q

\* The queue after draw of loop l ran: every path of draw requests a frame
Reschedule(q, l, h) == q \cup {[id |-> h, loop |-> l]}

----------------------------------------------------------------------------
(* draw(currentTime), lines 63-106 *)

\* Mutant of DrawSkip: the skip path requests the next frame without storing
\* the handle, so animationId keeps the handle of the tick that just ran
DrawSkipStale(L) == L

\* Mutant of DrawSkip: the skipped tick still runs line 102 for every column
DrawSkipAdvancing(L) ==
    [L EXCEPT !.animationId = Unassigned,
              !.drops = [i \in DOMAIN L.drops |-> L.drops[i] + L.speeds[i]]]

\* lines 66-69: the tick came too early
DrawSkip(L) == [L EXCEPT !.animationId = Unassigned]

\* Mutant of NextLastTime: the frame-gate timestamp is never moved forward
NextLastTimeStale(L, currentTime) == L.lastTime

\* Mutant of NextLastTime: no drift correction, lastTime = currentTime
NextLastTimeUncorrected(L, currentTime) == currentTime

\* line 71
NextLastTime(L, currentTime) ==
    currentTime - ((currentTime - L.lastTime) % L.frameInterval)

\* line 98: column i is reset on this frame
ColumnResets(L, rs) ==
    {i \in DOMAIN L.drops :
        pastBottom(L.drops[i], L.fontSize, L.height) /\ resetDraw(rs[i])}

\* Mutant of AdvanceDrop: the column moves up instead of down
AdvanceDropUp(L, i, rs) ==
    (IF i \in ColumnResets(L, rs) THEN 0 ELSE L.drops[i]) - L.speeds[i]

\* Mutant of AdvanceDrop: line 102 sits in an else branch of the reset, so a
\* column that is reset stays at the top for that frame
AdvanceDropUnlessReset(L, i, rs) ==
    IF i \in ColumnResets(L, rs) THEN 0 ELSE L.drops[i] + L.speeds[i]

\* lines 98-102 for one column
AdvanceDrop(L, i, rs) ==
    (IF i \in ColumnResets(L, rs) THEN 0 ELSE L.drops[i]) + L.speeds[i]

\* Mutant of DrawFrame: line 100 sits outside the reset branch, so every
\* accepted frame re-randomizes the opacity of every column
DrawFrameRedrawn(L, currentTime, rs, os) ==
    [L EXCEPT
        !.lastTime = NextLastTime(L, currentTime),
        !.drops = [i \in DOMAIN L.drops |-> AdvanceDrop(L, i, rs)],
        !.opacities = [i \in DOMAIN L.opacities |-> randomOpacity(os[i])],
        !.accepted = L.accepted \cup {currentTime},
        !.animationId = Unassigned]

\* Mutant of DrawFrame: the reset branch also draws a new speed for the
\* column, from the sample it draws the opacity from
DrawFrameNewSpeed(L, currentTime, rs, os) ==
    [L EXCEPT
        !.lastTime = NextLastTime(L, currentTime),
        !.drops = [i \in DOMAIN L.drops |-> AdvanceDrop(L, i, rs)],
        !.speeds = [i \in DOMAIN L.speeds |->
                       IF i \in ColumnResets(L, rs)
                       THEN initialSpeed(os[i]) ELSE L.speeds[i]],
        !.opacities = [i \in DOMAIN L.opacities |->
                          IF i \in ColumnResets(L, rs)
                          THEN randomOpacity(os[i]) ELSE L.opacities[i]],
        !.accepted = L.accepted \cup {currentTime},
        !.animationId = Unassigned]

\* lines 71-105: an accepted frame
DrawFrame(L, currentTime, rs, os) ==
    [L EXCEPT
        !.lastTime = NextLastTime(L, currentTime),
        !.drops = [i \in DOMAIN L.drops |-> AdvanceDrop(L, i, rs)],
        !.opacities = [i \in DOMAIN L.opacities |->
                          IF i \in ColumnResets(L, rs)
                          THEN randomOpacity(os[i]) ELSE L.opacities[i]],
        !.accepted = L.accepted \cup {currentTime},
        !.animationId = Unassigned]

\* Mutant of FrameGateOpen: the comparison is the wrong way round
FrameGateInverted(L, currentTime) == currentTime - L.lastTime < L.frameInterval

\* line 66
FrameGateOpen(L, currentTime) == ~(currentTime - L.lastTime < L.frameInterval)

\* The Math.random() draws an execution of draw makes: line 98 draws only for
\* a column past the bottom (&& short-circuits), line 100 only for a column
\* that is reset, and the skip path draws nothing.  A draw that is not made
\* is written as the sample 0.
ResetSamples(L, currentTime) ==
    {rs \in [DOMAIN L.drops -> Random] :
        \A i \in DOMAIN L.drops :
            rs[i] # 0 => /\ FrameGateOpen(L, currentTime)
                         /\ pastBottom(L.drops[i], L.fontSize, L.height)}

OpacitySamples(L, rs) ==
    {os \in [DOMAIN L.drops -> Random] :
        \A i \in DOMAIN L.drops : os[i] # 0 => i \in ColumnResets(L, rs)}

Draw(L, currentTime, rs, os) ==
    IF FrameGateOpen(L, currentTime)
    THEN DrawFrame(L, currentTime, rs, os)
    ELSE DrawSkip(L)

\* lines 87-95: what an accepted frame paints, per column
HeadsDrawn(L) == {i \in DOMAIN L.drops : headVisible(L.drops[i], L.fontSize)}

\* Mutant of TrailsDrawn: the trail is drawn on every device
TrailsAlways(L) == HeadsDrawn(L)

TrailsDrawn(L) == IF L.isLowEnd THEN {} ELSE HeadsDrawn(L)

NoDraw == [kind |-> "none"]

DrawRecord(l, L, currentTime, rs) ==
    IF FrameGateOpen(L, currentTime)
    THEN [kind |-> "frame", loop |-> l, time |-> currentTime,
          resets |-> ColumnResets(L, rs),
          heads |-> HeadsDrawn(L), trails |-> TrailsDrawn(L)]
    ELSE [kind |-> "skip", loop |-> l, time |-> currentTime]

----------------------------------------------------------------------------
(* The loop effect, lines 20-120 *)

\* Mutant of resize: the resize also recomputes the columns from the new width
resizeRecount(L, w, h) ==
    [L EXCEPT !.width = w, !.height = h,
              !.drops = [i \in 1..activeColumnsOf(w, L.isLowEnd) |->
                            IF i \in DOMAIN L.drops THEN L.drops[i] ELSE 0],
              !.speeds = [i \in 1..activeColumnsOf(w, L.isLowEnd) |->
                            IF i \in DOMAIN L.speeds THEN L.speeds[i] ELSE 100],
              !.opacities = [i \in 1..activeColumnsOf(w, L.isLowEnd) |->
                            IF i \in DOMAIN L.opacities THEN L.opacities[i] ELSE 100]]

\* Mutant of resize: the resize also restarts the frame gate
resizeRestart(L, w, h) == [L EXCEPT !.width = w, !.height = h, !.lastTime = 0]

\* lines 34-37
resize(L, w, h) == [L EXCEPT !.width = w, !.height = h]

\* Mutant of NewLoop: the frame rate is also lowered on a narrow viewport
NewLoopResponsive(isLowEnd, w, h, ds, ss, os) ==
    [isLowEnd |-> isLowEnd,
     fontSize |-> fontSizeOf(isLowEnd),
     targetFPS |-> IF w < 40 THEN 30 ELSE targetFPSOf(isLowEnd),
     frameInterval |-> IF w < 40 THEN 100 ELSE frameIntervalOf(isLowEnd),
     columns |-> columnsOf(w, isLowEnd),
     activeColumns |-> activeColumnsOf(w, isLowEnd),
     width |-> w,
     height |-> h,
     drops |-> [i \in 1..activeColumnsOf(w, isLowEnd) |-> initialDrop(ds[i])],
     speeds |-> [i \in 1..activeColumnsOf(w, isLowEnd) |-> initialSpeed(ss[i])],
     opacities |-> [i \in 1..activeColumnsOf(w, isLowEnd) |-> randomOpacity(os[i])],
     animationId |-> Unassigned,
     lastTime |-> 0,
     accepted |-> {},
     stopped |-> FALSE]

\* lines 29-61 and 108: the closure a run of the effect creates
NewLoop(isLowEnd, w, h, ds, ss, os) ==
    [isLowEnd |-> isLowEnd,
     fontSize |-> fontSizeOf(isLowEnd),
     targetFPS |-> targetFPSOf(isLowEnd),
     frameInterval |-> frameIntervalOf(isLowEnd),
     columns |-> columnsOf(w, isLowEnd),
     activeColumns |-> activeColumnsOf(w, isLowEnd),
     width |-> w,
     height |-> h,
     drops |-> [i \in 1..activeColumnsOf(w, isLowEnd) |-> initialDrop(ds[i])],
     speeds |-> [i \in 1..activeColumnsOf(w, isLowEnd) |-> initialSpeed(ss[i])],
     opacities |-> [i \in 1..activeColumnsOf(w, isLowEnd) |-> randomOpacity(os[i])],
     animationId |-> Unassigned,
     lastTime |-> 0,
     accepted |-> {},
     stopped |-> FALSE]

\* Mutant of CleanupQueue: the cleanup does not cancel the pending frame
CleanupQueueSkipped(lps, q, c) == q

\* Mutant of CleanupListeners: the cleanup leaves handleResize registered
CleanupListenersKept(ls, c) == ls

\* lines 116-119, the cleanup the effect returned for loop c (0: none returned)
CleanupQueue(lps, q, c) ==
    IF c = 0 THEN q ELSE CancelAnimationFrame(q, lps[c].animationId)

CleanupListeners(ls, c) == ls \ {c}

\* After its cleanup ran, React drops the effect's closure: nothing refers to
\* its canvas and its column arrays any more unless a frame callback of it is
\* still pending.  A released closure keeps its constants and its handle.
Released(L) ==
    [L EXCEPT !.width = 0, !.height = 0, !.drops = <<>>, !.speeds = <<>>,
              !.opacities = <<>>, !.lastTime = 0, !.accepted = {}]

CleanupLoops(lps, q, c) ==
    IF c = 0 THEN lps
    ELSE [lps EXCEPT ![c] =
            IF \E e \in CleanupQueue(lps, q, c) : e.loop = c
            THEN [lps[c] EXCEPT !.stopped = TRUE]
            ELSE Released([lps[c] EXCEPT !.stopped = TRUE])]

\* the record of the latest draw goes with the closure it is about; what is
\* kept is which path that draw took
CleanupDraw(rec, c) ==
    IF rec.kind \in {"skip", "frame"} /\ rec.loop = c
    THEN [kind |-> "stopped", loop |-> c, last |-> rec.kind]
    ELSE rec

\* what the component renders, lines 122-134
Rendered(ph, prm) ==
    IF ph # "mounted" THEN "none" ELSE IF prm THEN "static" ELSE "canvas"

\* Mutant of LoopStarts: the context is used without the check of line 27
LoopStartsWithoutContext(prm) ==
    /\ ~prm
    /\ Rendered("mounted", prm) = "canvas"

\* The rendered element carries aria-hidden="true": the canvas does (line
\* 132), the gradient div of lines 123-125 has no aria attribute
AriaHidden(rendered) == rendered = "canvas"

\* lines 21-27: the effect goes past its three early returns
LoopStarts(prm) ==
    /\ ~prm
    /\ Rendered("mounted", prm) = "canvas"
    /\ ctxAvailable

\* The Math.random() draws of lines 54-55 for n columns: every column draws
\* its own samples, or (uniform) the draws that happen to give every column
\* the same sample
ColumnSamples(n, uniform) ==
    IF uniform THEN {[i \in 1..n |-> r] : r \in Random} ELSE [1..n -> Random]

\* The Math.random() draws of line 53 for n columns: every column draws its
\* own sample, or (uniform) the draws that happen to start every column at
\* the top of the surface
DropSamples(n, uniform) ==
    IF uniform THEN {[i \in 1..n |-> 0]} ELSE [1..n -> Random]

\* One run of the effect with the committed state prm and low
\* (isLowPerformance), after the previous run's cleanup left the closures lps,
\* the queue q and the listeners ls.  setIsLowPerformance(isLowEnd) queues a
\* state update unless the state already has that value.
LoopEffectWith(lps, q, ls, prm, low, uniform) ==
    IF LoopStarts(prm)
    THEN /\ Len(lps) < MaxLoops
         /\ \E ds \in DropSamples(activeColumnsOf(innerWidth,
                                    isLowEndOf(isMobile, hardwareConcurrency)),
                                  uniform) :
            \E ss, os \in
                ColumnSamples(activeColumnsOf(innerWidth,
                                  isLowEndOf(isMobile, hardwareConcurrency)),
                              uniform) :
              LET isLowEnd == isLowEndOf(isMobile, hardwareConcurrency)
                  l == Len(lps) + 1
                  created == Append(lps, NewLoop(isLowEnd, innerWidth, innerHeight,
                                                 ds, ss, os))
                  h == NewHandle(q, created)
              IN /\ loops' = StoreHandles(created, h)
                 /\ rafQueue' = Reschedule(q, l, h)
                 /\ resizeListeners' = ls \cup {l}
                 /\ effectCleanup' = l
                 /\ everScheduled' = TRUE
                 /\ pendingLow' = IF isLowEnd = low THEN <<>> ELSE <<isLowEnd>>
    ELSE /\ loops' = lps
         /\ rafQueue' = q
         /\ resizeListeners' = ls
         /\ effectCleanup' = 0
         /\ pendingLow' = <<>>
         /\ UNCHANGED everScheduled

LoopEffect(lps, q, ls, prm, low) == LoopEffectWith(lps, q, ls, prm, low, FALSE)

----------------------------------------------------------------------------
(* Folding of an unbounded run.  draw reads the clock only through            *)
(* currentTime - lastTime, and lastTime is always a multiple of the frame     *)
(* interval; it reads a position only through drops[i] * fontSize > height    *)
(* and y > 0.  Two states that differ by a shift of every timestamp by a      *)
(* multiple of the interval, or in how far past the bottom of every viewport  *)
(* a column is, behave alike from there on; the folded run keeps one of them. *)

\* the frame interval of this device
DeviceInterval == frameIntervalOf(isLowEndOf(isMobile, hardwareConcurrency))

\* a timestamp, kept apart up to its place within its interval and whether a
\* whole interval has passed since time 0
FoldTime(t) ==
    IF t < 2 * DeviceInterval THEN t
    ELSE DeviceInterval + (t % DeviceInterval)

Max(a, b) == IF a >= b THEN a ELSE b

\* the tallest viewport of Sizes
MaxHeight == CHOOSE h \in {size[2] : size \in Sizes} :
                \A size \in Sizes : size[2] <= h

\* the first position, in 1/200 cell, that is past the bottom of every
\* viewport of Sizes with either glyph size
PastEveryBottom ==
    1 + Max((200 * MaxHeight) \div fontSizeOf(FALSE),
            (200 * MaxHeight) \div fontSizeOf(TRUE))

\* closure L at time t: lastTime shifted with the clock, the history of the
\* accepted frames dropped, positions past every bottom taken together
FoldLoop(L, t) ==
    [L EXCEPT !.lastTime = Max(L.lastTime - (t - FoldTime(t)), 0),
              !.accepted = {},
              !.drops = [i \in DOMAIN L.drops |->
                            IF L.drops[i] > PastEveryBottom
                            THEN PastEveryBottom ELSE L.drops[i]]]

\* the record of a draw, its timestamp folded; odd tells a draw from the one
\* before it (prev), which it may equal in everything else
FoldDraw(rec, prev) ==
    [rec EXCEPT !.time = FoldTime(rec.time)]
        @@ [odd |-> ~("odd" \in DOMAIN prev /\ prev.odd)]

----------------------------------------------------------------------------
(* Initial state: the host before the component is mounted *)

InitWith(sizes) ==
    /\ phase = "initial"
    /\ matchMediaAvailable \in BOOLEAN
    /\ mqMatches \in BOOLEAN
    /\ mqListener = FALSE
    /\ \E size \in sizes : innerWidth = size[1] /\ innerHeight = size[2]
    /\ \E device \in Devices :
          isMobile = device[1] /\ hardwareConcurrency = device[2]
    /\ ctxAvailable \in BOOLEAN
    /\ now = 0
    /\ rafQueue = {}
    /\ resizeListeners = {}
    /\ prefersReducedMotion = FALSE
    /\ isLowPerformance = FALSE
    /\ pendingPRM = <<>>
    /\ pendingLow = <<>>
    /\ loops = <<>>
    /\ effectCleanup = 0
    /\ reducedAtMount = FALSE
    /\ preferenceChanged = FALSE
    /\ everScheduled = FALSE
    /\ lateDraws = FALSE
    /\ lastDraw = NoDraw

Init == InitWith(Sizes)

\* setPrefersReducedMotion(v) while the committed state is cur: the update
\* that is left queued (an update to the value the state already has changes
\* nothing when it is rendered)
QueuePRM(cur, v) == IF v = cur THEN <<>> ELSE <<v>>

----------------------------------------------------------------------------
(* Actions *)

\* First render (useState(false), so the canvas) and both effects, in order:
\* lines 10-18, then lines 20-120.  Where window.matchMedia is not a function
\* the call of line 11 throws a TypeError out of the first effect: React does
\* not run the component's remaining effect, takes the component out of the
\* tree and hands the error to the host application.
MountWith(uniform) ==
    /\ phase = "initial"
    /\ IF matchMediaAvailable
       THEN /\ phase' = "mounted"
            /\ prefersReducedMotion' = FALSE
            /\ isLowPerformance' = FALSE
            /\ pendingPRM' = QueuePRM(FALSE, mqMatches)
            /\ mqListener' = TRUE
            /\ reducedAtMount' = mqMatches
            /\ LoopEffectWith(loops, rafQueue, resizeListeners, FALSE, FALSE,
                              uniform)
       ELSE /\ phase' = "crashed"
            /\ UNCHANGED <<prefersReducedMotion, isLowPerformance, pendingPRM,
                           pendingLow, mqListener, reducedAtMount, loops,
                           rafQueue, resizeListeners, effectCleanup,
                           everScheduled>>
    /\ UNCHANGED <<mqMatches, innerWidth, innerHeight, hostVars, now,
                   preferenceChanged, lateDraws, lastDraw>>

Mount == MountWith(FALSE)

\* The user's preference changes; handleChange (line 14) runs if registered.
PreferenceChange ==
    /\ phase # "initial"
    /\ mqMatches' = ~mqMatches
    /\ pendingPRM' = IF mqListener
                     THEN QueuePRM(prefersReducedMotion, ~mqMatches)
                     ELSE pendingPRM
    /\ UNCHANGED <<phase, mqListener, innerWidth, innerHeight, hostVars, now,
                   rafQueue, resizeListeners, prefersReducedMotion,
                   isLowPerformance, pendingLow, loops, effectCleanup,
                   reducedAtMount, everScheduled, lateDraws, lastDraw>>
    /\ preferenceChanged' = (preferenceChanged \/ phase = "mounted")

\* React renders the queued state updates.  When prefersReducedMotion changed,
\* the loop effect's cleanup runs and then the effect runs again (line 120).
RerenderWith(uniform) ==
    /\ phase = "mounted"
    /\ pendingPRM # <<>> \/ pendingLow # <<>>
    /\ LET prm == IF pendingPRM = <<>> THEN prefersReducedMotion ELSE pendingPRM[1]
           low == IF pendingLow = <<>> THEN isLowPerformance ELSE pendingLow[1]
       IN /\ prefersReducedMotion' = prm
          /\ isLowPerformance' = low
          /\ pendingPRM' = <<>>
          /\ IF prm # prefersReducedMotion
             THEN LoopEffectWith(CleanupLoops(loops, rafQueue, effectCleanup),
                                 CleanupQueue(loops, rafQueue, effectCleanup),
                                 CleanupListeners(resizeListeners, effectCleanup),
                                 prm, low, uniform)
             ELSE /\ pendingLow' = <<>>
                  /\ UNCHANGED <<loops, rafQueue, resizeListeners,
                                 effectCleanup, everScheduled>>
          /\ lastDraw' = IF prm # prefersReducedMotion
                         THEN CleanupDraw(lastDraw, effectCleanup) ELSE lastDraw
    /\ UNCHANGED <<phase, mqMatches, mqListener, innerWidth, innerHeight,
                   hostVars, now, reducedAtMount, preferenceChanged, lateDraws>>

Rerender == RerenderWith(FALSE)

\* Mutant of Unmount: the first effect returns no cleanup, so handleChange
\* stays registered on the media query
UnmountKeepingHandleChange ==
    /\ phase = "mounted"
    /\ phase' = "unmounted"
    /\ loops' = CleanupLoops(loops, rafQueue, effectCleanup)
    /\ lastDraw' = CleanupDraw(lastDraw, effectCleanup)
    /\ rafQueue' = CleanupQueue(loops, rafQueue, effectCleanup)
    /\ resizeListeners' = CleanupListeners(resizeListeners, effectCleanup)
    /\ effectCleanup' = 0
    /\ pendingPRM' = <<>>
    /\ pendingLow' = <<>>
    /\ UNCHANGED <<mqMatches, mqListener, innerWidth, innerHeight, hostVars,
                   now, prefersReducedMotion, isLowPerformance, reducedAtMount,
                   preferenceChanged, everScheduled, lateDraws>>

\* The component is removed: both effects' cleanups run (lines 116-119, 17).
Unmount ==
    /\ phase = "mounted"
    /\ phase' = "unmounted"
    /\ loops' = CleanupLoops(loops, rafQueue, effectCleanup)
    /\ lastDraw' = CleanupDraw(lastDraw, effectCleanup)
    /\ rafQueue' = CleanupQueue(loops, rafQueue, effectCleanup)
    /\ resizeListeners' = CleanupListeners(resizeListeners, effectCleanup)
    /\ effectCleanup' = 0
    /\ mqListener' = FALSE
    /\ pendingPRM' = <<>>
    /\ pendingLow' = <<>>
    /\ UNCHANGED <<mqMatches, innerWidth, innerHeight, hostVars, now,
                   prefersReducedMotion, isLowPerformance, reducedAtMount,
                   preferenceChanged, everScheduled, lateDraws>>

\* The viewport changes size; every registered handleResize runs (lines 110-112).
Resize ==
    /\ phase # "initial"
    /\ \E size \in Sizes :
          /\ size # <<innerWidth, innerHeight>>
          /\ innerWidth' = size[1]
          /\ innerHeight' = size[2]
          /\ loops' = [l \in DOMAIN loops |->
                          IF l \in resizeListeners
                          THEN resize(loops[l], size[1], size[2]) ELSE loops[l]]
    /\ UNCHANGED <<phase, mqMatches, mqListener, hostVars, now, rafQueue,
                   resizeListeners, prefersReducedMotion, isLowPerformance,
                   pendingPRM, pendingLow, effectCleanup, reducedAtMount,
                   preferenceChanged, everScheduled, lateDraws, lastDraw>>

\* The host runs one pending frame callback, draw(currentTime) of loop e.loop;
\* frame timestamps never decrease.  Unfolded, the timestamps run up to
\* MaxTime; folded, they run on for ever and the state keeps them up to
\* FoldTime, FoldLoop and FoldDraw.
TickWith(folded) ==
    \E e \in rafQueue, d \in TimeSteps :
       /\ folded \/ now + d <= MaxTime
       /\ now' = IF folded THEN FoldTime(now + d) ELSE now + d
       /\ \E rs \in ResetSamples(loops[e.loop], now + d) :
          \E os \in OpacitySamples(loops[e.loop], rs) :
            LET l == e.loop
                q == rafQueue \ {e}
                drawn == [loops EXCEPT ![l] = Draw(loops[l], now + d, rs, os)]
                h == NewHandle(q, drawn)
                stored == StoreHandles(drawn, h)
                rec == DrawRecord(l, loops[l], now + d, rs)
            IN /\ loops' = IF folded
                           THEN [k \in DOMAIN stored |-> FoldLoop(stored[k], now + d)]
                           ELSE stored
               /\ rafQueue' = Reschedule(q, l, h)
               /\ lastDraw' = IF folded THEN FoldDraw(rec, lastDraw) ELSE rec
               /\ lateDraws' = (lateDraws \/ loops[l].stopped)
       /\ everScheduled' = TRUE
       /\ UNCHANGED <<phase, mqMatches, mqListener, innerWidth, innerHeight,
                      hostVars, resizeListeners, prefersReducedMotion,
                      isLowPerformance, pendingPRM, pendingLow, effectCleanup,
                      reducedAtMount, preferenceChanged>>

Tick == TickWith(FALSE)

Next ==
    \/ Mount
    \/ PreferenceChange
    \/ Rerender
    \/ Unmount
    \/ Resize
    \/ Tick

Spec == Init /\ [][Next]_vars

\* The parameter selection on its own: the component is mounted on a viewport
\* of any width up to MaxWidth, on every device.
ProbeInit == InitWith(ProbeSizes)

ProbeNext == MountWith(TRUE)

ProbeSpec == ProbeInit /\ [][ProbeNext]_vars

----------------------------------------------------------------------------
(* Vocabulary of the properties *)

Running(l) == l \in DOMAIN loops /\ ~loops[l].stopped

Stopped(l) == l \in DOMAIN loops /\ loops[l].stopped

PendingTicks(l) == {e \in rafQueue : e.loop = l}

\* accepted frames of closure L with timestamps in the window [a, b]
FramesIn(L, a, b) == {t \in L.accepted : a <= t /\ t <= b}

\* the interval-aligned slot [k * frameInterval, (k+1) * frameInterval) of t
Slot(L, t) == t \div L.frameInterval

\* lines 91-95: closure L draws a trail glyph behind a visible head
TrailsEnabled(L) == TrailsDrawn([L EXCEPT !.drops = <<1>>]) = {1}

\* column i of the running loop l is past the bottom of the surface
PastBottomOf(l, i) ==
    /\ Running(l)
    /\ i \in DOMAIN loops[l].drops
    /\ pastBottom(loops[l].drops[i], loops[l].fontSize, loops[l].height)

\* the latest draw was an accepted frame of loop l that reset column i
JustReset(l, i) ==
    /\ lastDraw.kind = "frame"
    /\ lastDraw.loop = l
    /\ i \in lastDraw.resets

\* line 80 for every column of closure L: the k-th column has index k - 1
ColumnXs(L) ==
    [k \in DOMAIN L.drops |-> columnX(k - 1, L.fontSize, L.isLowEnd)]

\* No update of prefersReducedMotion is waiting to be rendered
Settled == phase = "mounted" /\ pendingPRM = <<>>

----------------------------------------------------------------------------
(* The specification with fairness *)

\* The component over an unbounded run, folded: mounted with motion allowed,
\* a context and matchMedia at hand, on a desktop or a mobile device.
LiveInit ==
    /\ Init
    /\ matchMediaAvailable
    /\ ctxAvailable
    /\ ~mqMatches
    /\ hardwareConcurrency > 2

LiveNext ==
    \/ MountWith(TRUE)
    \/ PreferenceChange
    \/ RerenderWith(TRUE)
    \/ Unmount
    \/ Resize
    \/ TickWith(TRUE)

\* columns a loop can have on the viewports of Sizes
Columns ==
    UNION {1..activeColumnsOf(size[1], low) : size \in Sizes, low \in BOOLEAN}

\* A step that is an accepted frame, and one that resets column i, told by
\* the record of the draw it leaves behind
FrameDrawn ==
    /\ lastDraw'.kind = "frame"
    /\ lastDraw'.odd # ("odd" \in DOMAIN lastDraw /\ lastDraw.odd)

ResetDrawn(i) == FrameDrawn /\ i \in lastDraw'.resets

\* An accepted frame can happen: for a pending callback, line 66 lets a next
\* timestamp through; one resetting column i can happen: besides, line 98
\* can come out true for column i
FramePossible ==
    \E e \in rafQueue : \E d \in TimeSteps :
       FrameGateOpen(loops[e.loop], now + d)

ResetPossible(i) ==
    \E e \in rafQueue : \E d \in TimeSteps :
       /\ FrameGateOpen(loops[e.loop], now + d)
       /\ \E rs \in ResetSamples(loops[e.loop], now + d) :
             i \in ColumnResets(loops[e.loop], rs)

\* Fairness: weak fairness of the accepted frame and of the accepted frame
\* that resets column i, with their enabling conditions written out.
\* The host keeps running the pending frame callback while its clock
\* advances (every path of draw requests the next frame, lines 67 and 105),
\* so a loop that keeps running keeps accepting frames; and Math.random() >
\* 0.98 of line 98, drawn afresh on every accepted frame for a column past the
\* bottom, does not come out false for ever.
LiveSpec ==
    /\ LiveInit
    /\ [][LiveNext]_vars
    /\ []<>(~FramePossible) \/ []<><<FrameDrawn>>_vars
    /\ \A i \in Columns :
          []<>(~ResetPossible(i)) \/ []<><<ResetDrawn(i)>>_vars

----------------------------------------------------------------------------
(* C1 *)

\* C1: if the reduced-motion preference is true when the component mounts
\* (and has not changed since), no frame callback is or was ever scheduled,
\* no loop was started, and the static substitute is what is rendered.
C1_ReducedAtMountSchedulesNothing ==
    (phase = "mounted" /\ reducedAtMount /\ ~preferenceChanged)
        => /\ ~everScheduled
           /\ rafQueue = {}
           /\ loops = <<>>
           /\ Rendered(phase, prefersReducedMotion) = "static"

----------------------------------------------------------------------------
(* C2 *)

\* C2: after a loop's teardown has run, no draw callback of that loop runs
\* again and none is pending, whichever path its last tick took.
C2_NoDrawAfterTeardown ==
    /\ ~lateDraws
    /\ \A l \in DOMAIN loops : Stopped(l) => PendingTicks(l) = {}

\* a loop was torn down by a preference change right after a tick of it that
\* took the frame-skip path, its rescheduled tick being cancelled
C2_TornDownAfterSkip ==
    /\ lastDraw.kind = "stopped"
    /\ lastDraw.last = "skip"
    /\ Stopped(lastDraw.loop)
    /\ PendingTicks(lastDraw.loop) = {}
    /\ now > 0
    /\ phase = "mounted"

----------------------------------------------------------------------------
(* C3 *)

\* C3: running a stopped loop's cleanup a second time changes nothing (the
\* frame queue, the resize listeners and every closure stay as the first call
\* left them), and no tick of the loop is pending after the first stop.
C3_StopIdempotent ==
    \A l \in DOMAIN loops :
        Stopped(l) =>
            /\ CleanupQueue(loops, rafQueue, l) = rafQueue
            /\ CleanupListeners(resizeListeners, l) = resizeListeners
            /\ CleanupLoops(loops, rafQueue, l) = loops
            /\ PendingTicks(l) = {}

\* a stopped loop next to a running one whose tick a second cleanup could hit
C3_StoppedBesideRunning ==
    /\ Stopped(1)
    /\ Running(2)
    /\ PendingTicks(2) # {}
    /\ 2 \in resizeListeners
    /\ loops[2].drops # <<>>

----------------------------------------------------------------------------
(* C4 *)

\* C4 as stated: in any window [a, b] of T = (b - a)/3000 seconds a loop has
\* at most targetFPS * T + 1 accepted frames.  (A window can be shrunk to its
\* first and last accepted frame, so those windows are the ones to look at.)
C4_AnyWindowBound ==
    \A l \in DOMAIN loops :
        \A a, b \in loops[l].accepted :
            a <= b =>
                3000 * Cardinality(FramesIn(loops[l], a, b))
                    <= loops[l].targetFPS * (b - a) + 3000

\* C4 amended: in any window whose length is a whole number n of frame
\* intervals (so targetFPS * T = n; every whole number of seconds is one) a
\* loop has at most n + 1 accepted frames.  (A window can be moved to start
\* at its first accepted frame.)
C4_WholeIntervalWindowBound ==
    \A l \in DOMAIN loops :
        \A a \in loops[l].accepted :
            \A n \in 0..(MaxTime \div loops[l].frameInterval) :
                Cardinality(FramesIn(loops[l], a, a + n * loops[l].frameInterval))
                    <= n + 1

\* ticks came faster than the interval and three frames were accepted, two of
\* them less than one interval apart
C4_DenseTicksGated ==
    \E l \in DOMAIN loops :
        /\ Cardinality(loops[l].accepted) >= 3
        /\ \E s, t \in loops[l].accepted :
              s < t /\ t - s < loops[l].frameInterval
        /\ lastDraw.kind = "skip"
        /\ lastDraw.loop = l

----------------------------------------------------------------------------
(* C5 *)

\* C5 as stated: the timestamps of any two accepted frames of a loop differ
\* by at least the frame interval.
C5_AcceptedFramesIntervalApart ==
    \A l \in DOMAIN loops :
        \A s, t \in loops[l].accepted :
            s < t => t - s >= loops[l].frameInterval

\* C5 amended: a tick is skipped exactly when the time since the frame-gate
\* timestamp lastTime (the last accepted frame's timestamp rounded down to a
\* multiple of the interval) is less than the interval; so no two accepted
\* frames share an interval-aligned slot, though two consecutive ones can be
\* closer than one interval.
C5_GateOnLastTime ==
    /\ \A l \in DOMAIN loops :
          \A s, t \in loops[l].accepted :
              s < t => Slot(loops[l], s) < Slot(loops[l], t)
    /\ lastDraw.kind = "skip" =>
          /\ lastDraw.time - loops[lastDraw.loop].lastTime
                < loops[lastDraw.loop].frameInterval
          /\ loops[lastDraw.loop].lastTime <= lastDraw.time
    /\ lastDraw.kind = "frame" =>
          /\ lastDraw.time \in loops[lastDraw.loop].accepted
          /\ loops[lastDraw.loop].lastTime
                = Slot(loops[lastDraw.loop], lastDraw.time)
                    * loops[lastDraw.loop].frameInterval
          /\ lastDraw.time >= loops[lastDraw.loop].frameInterval

\* a frame was accepted less than one interval after the previous accepted one
C5_CloseFramesAccepted ==
    /\ lastDraw.kind = "frame"
    /\ \E s \in loops[lastDraw.loop].accepted :
          /\ s < lastDraw.time
          /\ lastDraw.time - s < loops[lastDraw.loop].frameInterval

----------------------------------------------------------------------------
(* C6 *)

\* C6 as stated: within one mount the loop is started at most once, and once
\* a loop has become Stopped no tick is scheduled any more.
C6_OneLoopPerMount ==
    /\ Len(loops) <= 1
    /\ (\E l \in DOMAIN loops : Stopped(l)) => rafQueue = {}

\* C6 amended: each run of the loop effect is one loop that goes
\* Idle -> Running -> Stopped at most once: at most one loop runs at a time
\* (the latest, the one whose cleanup is registered), a stopped loop has no
\* pending tick and no resize listener and never runs again, and after the
\* unmount every loop is stopped; one mount can run several loops in turn.
C6_LoopInstanceLifecycle ==
    /\ [](/\ \A l \in DOMAIN loops :
               /\ Stopped(l) => PendingTicks(l) = {} /\ l \notin resizeListeners
               /\ Running(l) => l = Len(loops) /\ l = effectCleanup
                                /\ phase = "mounted"
          /\ effectCleanup # 0 => Running(effectCleanup)
          /\ ~lateDraws)
    /\ [][\A l \in DOMAIN loops :
             Stopped(l) => /\ loops'[l].stopped
                           /\ \A e \in rafQueue' : e.loop # l]_vars

\* a second loop is running in the same mount after the first was stopped
C6_SecondLoopRunning ==
    /\ Stopped(1)
    /\ Running(2)
    /\ PendingTicks(2) # {}
    /\ lastDraw.kind = "frame"
    /\ lastDraw.loop = 2

----------------------------------------------------------------------------
(* C7 *)

\* the latest loop is running with the one pending tick, in the next state
StartedNext ==
    /\ loops' # <<>>
    /\ ~loops'[Len(loops')].stopped
    /\ Cardinality(rafQueue') = 1
    /\ \A e \in rafQueue' : e.loop = Len(loops')

----------------------------------------------------------------------------
(* C8 *)

\* C8 as stated: every loop of one mount has the column count established at
\* mount.
C8_ColumnCountFixedPerMount ==
    \A l \in DOMAIN loops : loops[l].activeColumns = loops[1].activeColumns

\* C8 amended: the number of column-state entries of a loop never changes
\* while the loop runs (no tick, reset or resize alters it); a loop started
\* after a preference change computes its own count from the current width.
C8_ColumnCountFixedPerLoop ==
    [][\A l \in DOMAIN loops :
          (Running(l) /\ ~loops'[l].stopped) =>
              /\ Len(loops'[l].drops) = Len(loops[l].drops)
              /\ Len(loops'[l].speeds) = Len(loops[l].drops)
              /\ Len(loops'[l].opacities) = Len(loops[l].drops)
              /\ loops'[l].activeColumns = Len(loops[l].drops)]_vars

\* a loop has drawn a frame with a reset after the viewport got wider than
\* the width its columns were computed from
C8_RanAcrossResize ==
    \E l \in DOMAIN loops :
        /\ Running(l)
        /\ loops[l].activeColumns > 0
        /\ loops[l].activeColumns # activeColumnsOf(loops[l].width, loops[l].isLowEnd)
        /\ lastDraw.kind = "frame"
        /\ lastDraw.loop = l
        /\ lastDraw.resets # {}

----------------------------------------------------------------------------
(* C9 *)

\* C9: a resize changes only the width and height of the canvas of the loop
\* whose handleResize is registered, setting them to the new viewport size;
\* the effect parameters, the columns, lastTime, the handle and the pending
\* ticks are unchanged.
C9_ResizeOnlyMeasures ==
    [][(innerWidth' # innerWidth \/ innerHeight' # innerHeight) =>
          /\ rafQueue' = rafQueue
          /\ resizeListeners' = resizeListeners
          /\ DOMAIN loops' = DOMAIN loops
          /\ \A l \in DOMAIN loops :
                /\ loops'[l] = [loops[l] EXCEPT !.width = loops'[l].width,
                                                !.height = loops'[l].height]
                /\ l \in resizeListeners =>
                      /\ loops'[l].width = innerWidth'
                      /\ loops'[l].height = innerHeight'
                /\ l \notin resizeListeners =>
                      /\ loops'[l].width = loops[l].width
                      /\ loops'[l].height = loops[l].height]_vars

\* a running loop that has drawn frames was resized from 16x16 to 40x32: its
\* canvas has the new size, its column count is still the one of the old width
C9_ResizedWhileRunning ==
    \E l \in DOMAIN loops :
        /\ Running(l)
        /\ loops[l].accepted # {}
        /\ loops[l].width = 40
        /\ loops[l].height = 32
        /\ loops[l].activeColumns = activeColumnsOf(16, loops[l].isLowEnd)
        /\ loops[l].activeColumns > 0
        /\ PendingTicks(l) # {}

----------------------------------------------------------------------------
(* C10 *)

\* C10: a column's position decreases only on an accepted frame on which that
\* column is reset.
C10_PositionMonotoneBetweenResets ==
    [][\A l \in DOMAIN loops :
          \A i \in DOMAIN loops[l].drops \cap DOMAIN loops'[l].drops :
              loops'[l].drops[i] < loops[l].drops[i] =>
                  /\ lastDraw' # lastDraw
                  /\ lastDraw'.kind = "frame"
                  /\ lastDraw'.loop = l
                  /\ i \in lastDraw'.resets]_vars

\* a column that had moved past the bottom was reset by the latest frame and
\* is back at the top, one step down
C10_ColumnWasReset ==
    /\ lastDraw.kind = "frame"
    /\ \E i \in lastDraw.resets :
          /\ loops[lastDraw.loop].drops[i] = loops[lastDraw.loop].speeds[i]
          /\ \E j \in DOMAIN loops[lastDraw.loop].drops :
                j \notin lastDraw.resets /\ loops[lastDraw.loop].drops[j] > 0

----------------------------------------------------------------------------
(* C11 *)

\* C11: a column's opacity changes only in a step that is an accepted frame of
\* its loop in which that column is reset; a skipped tick, an accepted frame
\* that does not reset the column, and a resize leave it as it was.
C11_OpacityChangesOnlyOnReset ==
    [][\A l \in DOMAIN loops :
          l \in DOMAIN loops' =>
            \A i \in (DOMAIN loops[l].opacities) \cap (DOMAIN loops'[l].opacities) :
               loops'[l].opacities[i] # loops[l].opacities[i]
                  => /\ lastDraw'.kind = "frame"
                     /\ lastDraw'.loop = l
                     /\ lastDraw'.time = now'
                     /\ i \in lastDraw'.resets]_vars

\* the latest draw was an accepted frame of a running loop that reset one
\* column, giving it a freshly drawn opacity, and left another column, with a
\* different opacity, alone
C11_ResetBesideKept ==
    /\ lastDraw.kind = "frame"
    /\ Running(lastDraw.loop)
    /\ \E i, j \in DOMAIN loops[lastDraw.loop].opacities :
          /\ i \in lastDraw.resets
          /\ j \notin lastDraw.resets
          /\ loops[lastDraw.loop].opacities[i] = randomOpacity(99)
          /\ loops[lastDraw.loop].opacities[j] = randomOpacity(0)

----------------------------------------------------------------------------
(* C12 *)

\* C12: a column of a running loop that is past the bottom of the surface is
\* eventually reset by an accepted frame, unless the loop is torn down first
\* (frames keep being accepted and the reset draw is fair).
C12_PastBottomEventuallyReset ==
    \A l \in 1..MaxLoops : \A i \in Columns :
       PastBottomOf(l, i) ~> (JustReset(l, i) \/ ~Running(l))

\* a column of a running loop went past the bottom and the latest accepted
\* frame has reset it: it is back at the top, one step down
C12_ResetFromPastBottom ==
    /\ lastDraw.kind = "frame"
    /\ Running(lastDraw.loop)
    /\ \E i \in lastDraw.resets :
          loops[lastDraw.loop].drops[i] = loops[lastDraw.loop].speeds[i]

----------------------------------------------------------------------------
(* C13 *)

\* C13 as stated: a loop has floor(width / glyph size) columns on a high-end
\* device and half of that, floored or rounded, on a low-end device; on a
\* surface 100 px wide a high-end device has exactly 5 columns and a low-end
\* device 2 or 3.
C13_ColumnsAtWidth100 ==
    \A l \in DOMAIN loops :
       LET L == loops[l]
           n == Len(L.drops)
       IN /\ \E k \in 0..L.width :
                /\ k * L.fontSize <= L.width
                /\ L.width < (k + 1) * L.fontSize
                /\ IF L.isLowEnd THEN 2 * n <= k + 1 /\ k <= 2 * n + 1 ELSE n = k
          /\ L.width = 100 => IF L.isLowEnd THEN n \in {2, 3} ELSE n = 5

\* C13, amended: the glyph size is 16 px on a high-end and 20 px on a low-end
\* device; a loop has floor(width / glyph size) columns on a high-end device
\* and the floor of half of that on a low-end device, each column with a
\* position, a speed and an opacity; on a surface 100 px wide that is exactly
\* 6 columns on a high-end and exactly 2 on a low-end device.
C13_ColumnsOfProfile ==
    \A l \in DOMAIN loops :
       LET L == loops[l]
           n == Len(L.drops)
       IN /\ Len(L.speeds) = n /\ Len(L.opacities) = n /\ L.activeColumns = n
          /\ \E k \in 0..L.width :
                /\ k * L.fontSize <= L.width
                /\ L.width < (k + 1) * L.fontSize
                /\ L.columns = k
                /\ IF L.isLowEnd THEN 2 * n <= k /\ k <= 2 * n + 1 ELSE n = k
          /\ L.fontSize = IF L.isLowEnd THEN 20 ELSE 16
          /\ L.width = 100 => n = IF L.isLowEnd THEN 2 ELSE 6

\* mounted on a surface 100 px wide, a high-end device runs a loop of 6 columns
C13_SixColumnsAtWidth100 ==
    /\ phase = "mounted"
    /\ innerWidth = 100
    /\ ~isLowEndOf(isMobile, hardwareConcurrency)
    /\ Running(1)
    /\ loops[1].width = 100
    /\ Len(loops[1].drops) = 6

----------------------------------------------------------------------------
(* C14 *)

\* C14: the effect parameters depend on isLowEnd alone: any two runs of the
\* loop effect with the same isLowEnd, whatever the viewport, the clock and
\* the random draws of each, have the same glyph size, the same target frame
\* rate and frame interval, the same trails flag and, for the same number of
\* columns that fit, the same number of active columns (the same density:
\* their shares of active columns differ by less than one column).
C14_ParametersDependOnIsLowEndOnly ==
    \A l1, l2 \in DOMAIN loops :
       loops[l1].isLowEnd = loops[l2].isLowEnd
          => /\ loops[l1].fontSize = loops[l2].fontSize
             /\ loops[l1].targetFPS = loops[l2].targetFPS
             /\ loops[l1].frameInterval = loops[l2].frameInterval
             /\ TrailsEnabled(loops[l1]) = TrailsEnabled(loops[l2])
             /\ loops[l1].columns = loops[l2].columns
                   => loops[l1].activeColumns = loops[l2].activeColumns
             /\ loops[l1].activeColumns * loops[l2].columns
                   <= (loops[l2].activeColumns + 1) * loops[l1].columns

\* two runs of the loop effect on the same device, the second one started
\* later, on a viewport of another width, and still running
C14_TwoDerivations ==
    /\ Stopped(1)
    /\ Running(2)
    /\ loops[1].isLowEnd = loops[2].isLowEnd
    /\ loops[1].columns # loops[2].columns
    /\ now > 0

----------------------------------------------------------------------------
(* C15 *)

\* C15: a loop on a low-end device (mobile user agent, or at most 2 cores) has
\* glyph size 20, target frame rate 30, half of the columns that fit active
\* and trails off; a loop on a high-end device has glyph size 16, target frame
\* rate 60, every column active and trails on.  No accepted frame draws a
\* trail glyph on a low-end device, and on a high-end device every visible
\* head has its trail drawn.
C15_ProfileParameters ==
    /\ \A l \in DOMAIN loops :
          LET L == loops[l]
          IN /\ L.isLowEnd = (isMobile \/ hardwareConcurrency <= 2)
             /\ IF L.isLowEnd
                THEN /\ L.fontSize = 20
                     /\ L.targetFPS = 30
                     /\ 2 * L.activeColumns <= L.columns
                     /\ L.columns <= 2 * L.activeColumns + 1
                     /\ ~TrailsEnabled(L)
                ELSE /\ L.fontSize = 16
                     /\ L.targetFPS = 60
                     /\ L.activeColumns = L.columns
                     /\ TrailsEnabled(L)
    /\ lastDraw.kind = "frame"
          => lastDraw.trails = IF loops[lastDraw.loop].isLowEnd
                               THEN {} ELSE lastDraw.heads

\* a low-end device's loop drew an accepted frame with a visible head glyph
\* and no trail glyph
C15_LowEndHeadWithoutTrail ==
    /\ lastDraw.kind = "frame"
    /\ loops[lastDraw.loop].isLowEnd
    /\ Running(lastDraw.loop)
    /\ lastDraw.heads # {}
    /\ lastDraw.trails = {}

----------------------------------------------------------------------------
(* C16 *)

\* C16: where the drawable surface cannot be acquired (getContext gives null;
\* the canvas element itself is there whenever the effect gets to line 23),
\* the loop effect does nothing: no frame callback is or was ever requested,
\* no resize listener is registered, no closure with column state exists, no
\* cleanup is returned, no state update is queued by it, and it raises no
\* error (the component is only ever taken down by the missing matchMedia).
C16_NoSurfaceNoLoop ==
    ~ctxAvailable
       => /\ ~everScheduled
          /\ rafQueue = {}
          /\ resizeListeners = {}
          /\ loops = <<>>
          /\ effectCleanup = 0
          /\ pendingLow = <<>>
          /\ ~isLowPerformance
          /\ lastDraw = NoDraw
          /\ phase = "crashed" => ~matchMediaAvailable

\* without a 2-D context the loop effect ran at mount, the preference has
\* changed since, and the canvas is what is rendered
C16_EffectRanWithoutContext ==
    /\ phase = "mounted"
    /\ ~ctxAvailable
    /\ preferenceChanged
    /\ Settled
    /\ ~prefersReducedMotion
    /\ ~mqMatches
    /\ reducedAtMount

----------------------------------------------------------------------------
(* C17 *)

\* C17: whenever the component is mounted and the drawable surface cannot be
\* acquired, what it renders is the static substitute, not the canvas, and no
\* error has taken the component down.
C17_NoSurfaceRendersStatic ==
    ~ctxAvailable
       => /\ phase = "mounted"
               => Rendered(phase, prefersReducedMotion) = "static"
          /\ phase = "crashed" => ~matchMediaAvailable

----------------------------------------------------------------------------
(* C18 *)

\* C18: at any time at most one resize listener is registered, and it is the
\* one of the running loop: a loop's listener is registered from its start to
\* its teardown and never again; the preference listener is registered
\* exactly while the component is mounted; after the unmount no listener of
\* the component is left and no state update of it is waiting.
C18_ListenersMatchLifetimes ==
    /\ Cardinality(resizeListeners) <= 1
    /\ resizeListeners = {l \in DOMAIN loops : Running(l)}
    /\ mqListener = (phase = "mounted")
    /\ phase = "unmounted"
          => /\ resizeListeners = {}
             /\ ~mqListener
             /\ \A l \in DOMAIN loops : Stopped(l)
             /\ pendingPRM = <<>>

\* the component was unmounted after preference changes had started a second
\* loop: both loops' resize listeners and the preference listener are gone
C18_UnmountedAfterChanges ==
    /\ phase = "unmounted"
    /\ preferenceChanged
    /\ Len(loops) = 2
    /\ Stopped(1) /\ Stopped(2)
    /\ resizeListeners = {}
    /\ ~mqListener

----------------------------------------------------------------------------
(* C19 *)

\* C19: where the reduced-motion signal is not available (window.matchMedia
\* is not a function), mounting raises no error and, while the component is
\* mounted, the canvas is rendered and, given a 2-D context, a loop is running.
C19_NoSignalMotionEnabled ==
    (~matchMediaAvailable /\ phase # "initial")
       => /\ phase # "crashed"
          /\ phase = "mounted"
                => /\ Rendered(phase, prefersReducedMotion) = "canvas"
                   /\ ctxAvailable => \E l \in DOMAIN loops : Running(l)

----------------------------------------------------------------------------
(* C20 *)

\* C20: in every state in which the component renders an element, the canvas
\* or the static substitute, that element is marked aria-hidden.
C20_RenderedIsDecorative ==
    Rendered(phase, prefersReducedMotion) # "none"
       => AriaHidden(Rendered(phase, prefersReducedMotion))

----------------------------------------------------------------------------
(* C21 *)

\* C21 as stated: every accepted frame draws the head glyph of every column
\* of its loop, also of a column that is above the top of the surface, and
\* the trail glyph of every column exactly when trails are enabled.
C21_EveryHeadDrawn ==
    lastDraw.kind = "frame"
       => /\ lastDraw.heads = DOMAIN loops[lastDraw.loop].drops
          /\ lastDraw.trails = IF TrailsEnabled(loops[lastDraw.loop])
                               THEN DOMAIN loops[lastDraw.loop].drops ELSE {}

\* C21 amended: an accepted frame draws the head glyph of exactly the columns
\* whose position was below the top of the surface (y > 0) when the frame
\* began, and the trail glyph of exactly those columns when trails are
\* enabled, of none otherwise; a column at or above the top is not drawn.
\* (The position a column had when the frame began is its position now less
\* its speed, unless the frame reset it, which it does only past the bottom.)
C21_HeadDrawnBelowTop ==
    lastDraw.kind = "frame"
       => LET L == loops[lastDraw.loop]
          IN /\ lastDraw.heads =
                    {i \in DOMAIN L.drops :
                        i \in lastDraw.resets \/ L.drops[i] - L.speeds[i] > 0}
             /\ lastDraw.trails = IF TrailsEnabled(L) THEN lastDraw.heads ELSE {}

\* an accepted frame of a running loop drew the head and the trail of one
\* column and nothing of another, which was still above the top
C21_HeadBesideHidden ==
    /\ lastDraw.kind = "frame"
    /\ Running(lastDraw.loop)
    /\ \E i, j \in DOMAIN loops[lastDraw.loop].drops :
          /\ i \in lastDraw.heads /\ i \in lastDraw.trails
          /\ j \notin lastDraw.heads /\ j \notin lastDraw.trails
          /\ loops[lastDraw.loop].drops[j] < 0

----------------------------------------------------------------------------
(* C22 *)

\* C22: a running loop has exactly one frame callback pending, the one whose
\* handle its animationId holds, whichever path its latest tick took; no
\* callback of any other loop is pending beside it, so at most one callback
\* is pending at any time, after a preference change as well.  (A callback
\* runs to its end before the host runs the next one: a frame's writes to the
\* columns are one step.)
C22_OnePendingTick ==
    /\ Cardinality(rafQueue) <= 1
    /\ \A l \in DOMAIN loops :
          Running(l) => /\ Cardinality(PendingTicks(l)) = 1
                        /\ \A e \in PendingTicks(l) : e.id = loops[l].animationId
    /\ \A e \in rafQueue : Running(e.loop)
    /\ lastDraw.kind \in {"skip", "frame"}
          => Cardinality(PendingTicks(lastDraw.loop)) = 1

\* after a preference change stopped the first loop, the second loop has
\* accepted a frame and then skipped a tick: its one callback is pending
C22_SecondLoopSkippedTick ==
    /\ Stopped(1)
    /\ Running(2)
    /\ loops[2].accepted # {}
    /\ lastDraw.kind = "skip"
    /\ lastDraw.loop = 2
    /\ Cardinality(rafQueue) = 1

----------------------------------------------------------------------------
(* C23 *)

\* C23: a skipped tick (one that comes before the frame interval has passed
\* since lastTime) changes nothing but the pending callback and its handle:
\* it paints nothing, every column's position, speed and opacity, the frame
\* gate lastTime, the canvas size and the accepted frames of every loop stay
\* as they were, and one callback of the loop is pending afterwards.
C23_SkippedTickChangesNothing ==
    [][(/\ lastDraw'.kind = "skip"
        /\ phase' = phase
        /\ mqMatches' = mqMatches
        /\ innerWidth' = innerWidth /\ innerHeight' = innerHeight
        /\ prefersReducedMotion' = prefersReducedMotion
        /\ isLowPerformance' = isLowPerformance
        /\ pendingLow' = pendingLow)
          => /\ DOMAIN lastDraw' = {"kind", "loop", "time"}
             /\ lastDraw'.time - loops[lastDraw'.loop].lastTime
                   < loops[lastDraw'.loop].frameInterval
             /\ DOMAIN loops' = DOMAIN loops
             /\ \A l \in DOMAIN loops :
                   loops'[l] = [loops[l] EXCEPT
                                   !.animationId = loops'[l].animationId]
             /\ \A l \in DOMAIN loops :
                   l # lastDraw'.loop
                      => loops'[l].animationId = loops[l].animationId
             /\ Cardinality({e \in rafQueue' : e.loop = lastDraw'.loop}) = 1
             /\ resizeListeners' = resizeListeners
             /\ pendingPRM' = pendingPRM]_vars

\* a tick of a running loop was skipped 25 time units after an accepted
\* frame, a column of the loop being in view
C23_SkippedInsideInterval ==
    /\ lastDraw.kind = "skip"
    /\ Running(lastDraw.loop)
    /\ loops[lastDraw.loop].lastTime > 0
    /\ lastDraw.time = loops[lastDraw.loop].lastTime + 25
    /\ \E i \in DOMAIN loops[lastDraw.loop].drops :
          loops[lastDraw.loop].drops[i] > 0

----------------------------------------------------------------------------
(* C24 *)

\* C24: an accepted frame moves every column of its loop down by exactly
\* that column's speed; a column it resets is first put at the top (0) and
\* given a freshly drawn opacity (0.1 + random * 0.2), and is advanced as
\* well, so that it ends the frame at its speed; a column it does not reset
\* keeps its opacity.
C24_AdvanceAndReset ==
    [][(lastDraw'.kind = "frame" /\ lastDraw' # lastDraw)
          => LET l == lastDraw'.loop
             IN /\ DOMAIN loops'[l].drops = DOMAIN loops[l].drops
                /\ \A i \in DOMAIN loops[l].drops :
                      IF i \in lastDraw'.resets
                      THEN /\ loops'[l].drops[i] = 0 + loops[l].speeds[i]
                           /\ \E r \in Random :
                                 loops'[l].opacities[i] = randomOpacity(r)
                      ELSE /\ loops'[l].drops[i]
                                 = loops[l].drops[i] + loops[l].speeds[i]
                           /\ loops'[l].opacities[i] = loops[l].opacities[i]]_vars

\* the latest accepted frame reset the fastest kind of column, which is now
\* one step from the top, and advanced another column from where it was
C24_ResetThenAdvanced ==
    /\ lastDraw.kind = "frame"
    /\ Running(lastDraw.loop)
    /\ \E i \in lastDraw.resets :
          /\ loops[lastDraw.loop].speeds[i] = initialSpeed(99)
          /\ loops[lastDraw.loop].drops[i] = initialSpeed(99)
    /\ \E j \in DOMAIN loops[lastDraw.loop].drops :
          /\ j \notin lastDraw.resets
          /\ loops[lastDraw.loop].drops[j] # loops[lastDraw.loop].speeds[j]

----------------------------------------------------------------------------
(* C25 *)

\* C25: a column is put back to the top only by an accepted frame of its
\* loop, and only if, when that frame began, its glyph position (position
\* times glyph size) was strictly greater than the height the surface then
\* had, which is the height of the viewport since the latest resize; a column
\* whose glyph is at or above the bottom edge is not reset.
C25_ResetOnlyPastBottom ==
    [][/\ (lastDraw'.kind = "frame" /\ lastDraw' # lastDraw)
            => LET L == loops[lastDraw'.loop]
               IN /\ L.height = innerHeight
                  /\ \A i \in lastDraw'.resets :
                        /\ i \in DOMAIN L.drops
                        /\ L.drops[i] * L.fontSize > 200 * innerHeight
       /\ \A l \in DOMAIN loops :
             \A i \in DOMAIN loops[l].drops \cap DOMAIN loops'[l].drops :
                 loops'[l].drops[i] < loops[l].drops[i]
                    => /\ lastDraw'.kind = "frame"
                       /\ lastDraw' # lastDraw
                       /\ lastDraw'.loop = l
                       /\ i \in lastDraw'.resets]_vars

\* a loop started on the 40x32 viewport was resized to 16x16, and its third
\* accepted frame reset a column that was past the new bottom edge only
C25_ResetAfterShrink ==
    /\ lastDraw.kind = "frame"
    /\ Running(lastDraw.loop)
    /\ lastDraw.resets # {}
    /\ loops[lastDraw.loop].height = 16
    /\ innerHeight = 16
    /\ loops[lastDraw.loop].activeColumns = activeColumnsOf(40, loops[lastDraw.loop].isLowEnd)
    /\ Cardinality(loops[lastDraw.loop].accepted) = 3

----------------------------------------------------------------------------
(* C26 *)

\* C26: a column's speed is drawn once, when its loop is set up, as
\* 0.5 + random * 0.5 cells per frame, and no step changes it while the
\* loop's closure is alive: not a skipped tick, not an accepted frame, with
\* or without a reset of the column, and not a resize.
C26_SpeedNeverChanges ==
    /\ [](\A l \in DOMAIN loops :
             \A i \in DOMAIN loops[l].speeds :
                \E r \in Random : loops[l].speeds[i] = initialSpeed(r))
    /\ [][\A l \in DOMAIN loops :
             (l \in DOMAIN loops' /\ (Running(l) \/ PendingTicks(l) # {}))
                => \/ loops'[l].speeds = loops[l].speeds
                   \/ /\ loops'[l].stopped
                      /\ loops'[l].speeds = <<>>]_vars

\* the latest accepted frame reset a column of the slowest kind and drew it
\* the brightest kind of opacity: it is one slow step from the top
C26_ResetKeptSpeed ==
    /\ lastDraw.kind = "frame"
    /\ Running(lastDraw.loop)
    /\ \E i \in lastDraw.resets :
          /\ loops[lastDraw.loop].speeds[i] = initialSpeed(0)
          /\ loops[lastDraw.loop].drops[i] = initialSpeed(0)
          /\ loops[lastDraw.loop].opacities[i] = randomOpacity(99)

----------------------------------------------------------------------------
(* C27 *)

\* C27: for every width of the surface at mount and on either kind of
\* device, the horizontal position at which draw paints a column, i times
\* the glyph size on a high-end device and twice that on a low-end device,
\* is at least 0 and less than the width of the surface, for every column
\* the loop has.
C27_ColumnsInsideSurface ==
    \A l \in DOMAIN loops :
       Running(l)
          => \A k \in DOMAIN loops[l].drops :
                /\ 0 <= ColumnXs(loops[l])[k]
                /\ ColumnXs(loops[l])[k] < loops[l].width

\* mounted on a surface 120 px wide, a low-end device has three columns, the
\* last of them painted at x = 80
C27_ThreeSpreadColumns ==
    /\ phase = "mounted"
    /\ Running(1)
    /\ loops[1].isLowEnd
    /\ loops[1].width = 120
    /\ Len(loops[1].drops) = 3
    /\ ColumnXs(loops[1])[3] = 80

----------------------------------------------------------------------------
(* C28 *)

\* C28: the frame gate lastTime of a loop is always a whole multiple of the
\* loop's frame interval, at least 0 and at most the current frame
\* timestamp; right after an accepted frame the frame's timestamp is less
\* than one interval past it; and no step makes it smaller while the loop's
\* closure is alive.
C28_LastTimeAligned ==
    /\ [](/\ \A l \in DOMAIN loops :
               /\ loops[l].lastTime % loops[l].frameInterval = 0
               /\ 0 <= loops[l].lastTime
               /\ loops[l].lastTime <= now
          /\ lastDraw.kind = "frame"
                => /\ 0 <= lastDraw.time - loops[lastDraw.loop].lastTime
                   /\ lastDraw.time - loops[lastDraw.loop].lastTime
                         < loops[lastDraw.loop].frameInterval)
    /\ [][\A l \in DOMAIN loops :
             (l \in DOMAIN loops' /\ (Running(l) \/ PendingTicks(l) # {}))
                => \/ loops'[l].lastTime >= loops[l].lastTime
                   \/ /\ loops'[l].stopped
                      /\ loops'[l].drops = <<>>]_vars

\* a frame was accepted at a timestamp that is not a multiple of the
\* interval, and lastTime was put back to the multiple below it
C28_DriftCorrected ==
    /\ lastDraw.kind = "frame"
    /\ Running(lastDraw.loop)
    /\ lastDraw.time % loops[lastDraw.loop].frameInterval # 0
    /\ loops[lastDraw.loop].lastTime > 0
    /\ loops[lastDraw.loop].lastTime < lastDraw.time
====
